---- MODULE Spec2Model ----
(***************************************************************************)
(* Navigation store and flight controller of gitlaxy.                      *)
(*                                                                         *)
(* Units.  Time is in milliseconds.  Speeds are in 1/1000 unit per second, *)
(* angular velocities in 1/1000 rad per second, angles in 1/1000 rad.      *)
(* The code computes in IEEE doubles; the model computes in these fixed    *)
(* point units and truncates toward zero where a product is not integral.  *)
(* The linear controllers (cruise, direct) are exact in these units.       *)
(***************************************************************************)
EXTENDS Integers, Sequences, FiniteSets, TLC

\* ------------------------------------------------------------------------
\* Bounds of the model
\* ------------------------------------------------------------------------

\* frames the physics-curve controller may run in one behaviour
MaxCurveTicks == 3

\* frames the rotation specification may run in one behaviour
MaxRotTicks == 2

\* largest accumulated mouse movement (pixels per axis) between two frames
MaxMouse == 40

\* most sibling folders in a surveyed repository
MaxSiblings == 32

\* deepest chain of nested folders in a surveyed repository
MaxDepth == 4

\* most file requests in flight at once
MaxRequests == 2

\* largest |movement| the mouse accumulator may hold between two frames of
\* the pointer specification: two events
MaxPending == 80

\* frames the proximity detector may count in one behaviour
MaxDetectorFrames == 6

\* longest held-key run (ms of frame time) the scenario specification follows
MaxRunMs == 2200

\* ------------------------------------------------------------------------
\* Values
\* ------------------------------------------------------------------------

None == "none"

\* no planet: the null of nearestPlanet and of the nearest-planet search
NoPlanet == [node |-> None, distance |-> 0]

Folders == {"src", "docs"}

Files == {"main.ts", "README.md"}

Nodes == Folders \cup Files

CameraModes == {"orbit", "fly"}

\* the ShipControls snapshots of the repository
Variants == {"cruise", "direct", "curves"}

\* frame times handed to useFrame: two ordinary frames and one hitch
Deltas == {50, 100, 1000}

ThrustKeys == {"KeyW", "ArrowUp"}

BrakeKeys == {"KeyS", "ArrowDown"}

RollLeftKeys == {"KeyA", "ArrowLeft"}

RollRightKeys == {"KeyD", "ArrowRight"}

BoostKeys == {"ShiftLeft", "ShiftRight", "KeyE"}

FLIGHT_KEYS == ThrustKeys \cup BrakeKeys \cup RollLeftKeys \cup RollRightKeys \cup BoostKeys \cup {"Space"}

\* mouse movements <<movementX, movementY>> (pixels) delivered by one
\* mousemove event
Movements == {<<-40, 40>>, <<40, 40>>}

VARIABLES
  \* store
  viewLevel, currentSystem, selectedNode, cameraMode, keysPressed, flightState,
  landingState, landingTarget, nearestPlanet, isEditorOpen, editorContent,
  hasUnsavedChanges, editorError, showSettings,
  \* ShipControls refs
  variant, currentSpeed, isBoosting, currentYawVelocity, currentPitchVelocity,
  currentRollVelocity, autoBankAngle, mouseInput,
  thrustBuildupProgress, boostWindupProgress, wasBoostingLastFrame,
  boostEndAge, previousYawVelocity,
  \* history of the mouse accumulator: movement delivered to onMouseMove since
  \* the mount and not yet read by a frame
  owed,
  \* useProximityDetection refs, and the run of consecutive frames of the
  \* running detector on which the same planet was the nearest one in range
  frameCount, lastNearestId, streak,
  \* the outputs of the layout calls made so far
  layoutRuns,
  \* document
  pointerLocked, cursor,
  \* the keys physically held down on the keyboard
  held,
  \* the file server: requests of readFile and writeFile in flight, the
  \* content of each file, and for each file the text the editor last loaded
  \* from it or last successfully wrote to it
  pendingReads, pendingWrites, disk, synced,
  \* the call of runForceSimulation in progress
  sim,
  \* history of the behaviour: the last handler, its frame time, the
  \* controller state it started from, frames run, the held-key run, and
  \* the last handler's argument
  lastOp, lastDt, pre, frames, runKind, runMs, runHitch, lastArg

navVars == <<viewLevel, currentSystem, selectedNode>>

landingVars == <<landingState, landingTarget, nearestPlanet>>

editorVars == <<isEditorOpen, editorContent, hasUnsavedChanges, editorError>>

storeVars == <<navVars, cameraMode, keysPressed, flightState, landingVars,
               editorVars, showSettings>>

refVars == <<currentSpeed, isBoosting, currentYawVelocity, currentPitchVelocity,
             currentRollVelocity, autoBankAngle, mouseInput,
             thrustBuildupProgress, boostWindupProgress, wasBoostingLastFrame,
             boostEndAge, previousYawVelocity, owed>>

detectorVars == <<frameCount, lastNearestId, streak>>

layoutVars == <<layoutRuns>>

ioVars == <<pendingReads, pendingWrites, disk, synced>>

envVars == <<held, ioVars, sim>>

histVars == <<lastOp, lastDt, pre, frames, runKind, runMs, runHitch, lastArg>>

vars == <<storeVars, refVars, variant, detectorVars, layoutVars, pointerLocked,
          cursor, envVars, histVars>>

\* ------------------------------------------------------------------------
\* Arithmetic helpers
\* ------------------------------------------------------------------------

Abs(x) == IF x < 0 THEN -x ELSE x

Min(a, b) == IF a < b THEN a ELSE b

Max(a, b) == IF a > b THEN a ELSE b

\* division truncating toward zero (b > 0)
Div(a, b) == IF a >= 0 THEN a \div b ELSE -((-a) \div b)

\* a clamp that forgets the lower limit
clampUpperOnly(x, lo, hi) == IF x > hi THEN hi ELSE x

clamp(x, lo, hi) == Max(lo, Min(hi, x))

\* ------------------------------------------------------------------------
\* Flight configuration of each ShipControls snapshot
\* ------------------------------------------------------------------------

\* PERFORMANCE.ship.maxSpeed[selectedShip] for the store's selectedShip 'custom'
ShipMaxSpeed == 1800000

\* FLIGHT_CONFIG of the cruise-target controller
CruiseConfig ==
  [minSpeed |-> 30000, normalSpeed |-> 200000, maxSpeed |-> 500000,
   boostSpeed |-> 1800000, acceleration |-> 150, deceleration |-> 100,
   brakeForce |-> 300, rollRate |-> 2500]

\* FLIGHT_CONFIG of the direct controller
DirectConfig ==
  [minSpeed |-> -300000, normalSpeed |-> 200000, maxSpeed |-> 3000000,
   boostSpeed |-> 3000000, acceleration |-> 150, deceleration |-> 100,
   brakeForce |-> 300, rollRate |-> 2500]

\* createFlightConfig(DEFAULT_CONTROLS, 'custom') of the physics-curve controller
CurvesConfig ==
  [minSpeed |-> -300000, normalSpeed |-> 200000, maxSpeed |-> ShipMaxSpeed,
   boostSpeed |-> ShipMaxSpeed, acceleration |-> 150, deceleration |-> 100,
   brakeForce |-> 300, rollRate |-> 2500]

cfg(v) ==
  CASE v = "cruise" -> CruiseConfig
    [] v = "direct" -> DirectConfig
    [] v = "curves" -> CurvesConfig

\* DEFAULT_PHYSICS_CURVES, times in ms, ratios in 1/1000
physics ==
  [thrustBuildupTime |-> 1000, boostWindupTime |-> 300,
   frictionCoefficient |-> 100, boostMomentumDecay |-> 2500,
   driftRetention |-> 850]

\* the frame time the controller integrates with: Math.min(delta, 0.1)
MaxDt == 100

\* a frame time clamp with half the limit
ClampDtHalf(delta) == IF delta > 50 THEN 50 ELSE delta

ClampDt(delta) == Min(delta, MaxDt)

\* ------------------------------------------------------------------------
\* Mounting and unmounting ShipControls (Scene renders it only in fly mode)
\* ------------------------------------------------------------------------

\* the value the reset effect gives currentSpeed
ResetSpeed(v) == IF v = "cruise" THEN cfg(v).minSpeed ELSE 0

\* a mount whose reset effect does not run: the refs keep their useRef
\* initial values
MountWithoutResetEffect ==
  /\ currentSpeed' = cfg(variant).minSpeed
  /\ isBoosting' = FALSE
  /\ currentYawVelocity' = 0
  /\ currentPitchVelocity' = 0
  /\ currentRollVelocity' = 0
  /\ autoBankAngle' = 0
  /\ mouseInput' = [x |-> 0, y |-> 0]
  /\ thrustBuildupProgress' = 0
  /\ boostWindupProgress' = 0
  /\ wasBoostingLastFrame' = FALSE
  /\ boostEndAge' = -1
  /\ previousYawVelocity' = 0
  /\ owed' = [x |-> 0, y |-> 0]
  /\ pointerLocked' = pointerLocked
  /\ cursor' = cursor

\* useRef initial values followed by the reset effect of the first render
MountShipControls ==
  /\ currentSpeed' = ResetSpeed(variant)
  /\ isBoosting' = FALSE
  /\ currentYawVelocity' = 0
  /\ currentPitchVelocity' = 0
  /\ currentRollVelocity' = 0
  /\ autoBankAngle' = 0
  /\ mouseInput' = [x |-> 0, y |-> 0]
  /\ thrustBuildupProgress' = 0
  /\ boostWindupProgress' = 0
  /\ wasBoostingLastFrame' = FALSE
  /\ boostEndAge' = -1
  /\ previousYawVelocity' = 0
  /\ owed' = [x |-> 0, y |-> 0]
  /\ pointerLocked' = pointerLocked
  /\ cursor' = cursor

\* a cleanup that removes the handlers and leaves the pointer lock and the
\* cursor as they are
UnmountKeepsPointerLock ==
  /\ UNCHANGED refVars
  /\ UNCHANGED <<pointerLocked, cursor>>

\* cleanup of the handlers effect: the refs die with the component, the
\* pointer lock is released
UnmountShipControls ==
  /\ UNCHANGED refVars
  /\ pointerLocked' = FALSE
  /\ cursor' = "default"

\* what a change of the store's cameraMode from old to new does to ShipControls
CameraModeEffects(old, new) ==
  IF old = new THEN UNCHANGED <<refVars, pointerLocked, cursor>>
  ELSE IF new = "fly" THEN MountShipControls
  ELSE UnmountShipControls

\* the navigation and landing fields of the store
StoreSnapshot ==
  [viewLevel |-> viewLevel, currentSystem |-> currentSystem,
   selectedNode |-> selectedNode, cameraMode |-> cameraMode,
   keysPressed |-> keysPressed, flightState |-> flightState,
   landingState |-> landingState, landingTarget |-> landingTarget,
   nearestPlanet |-> nearestPlanet,
   isEditorOpen |-> isEditorOpen, editorContent |-> editorContent,
   hasUnsavedChanges |-> hasUnsavedChanges, editorError |-> editorError,
   showSettings |-> showSettings]

\* the speed state of the controller
ShipSnapshot ==
  [speed |-> currentSpeed, thrustBuildup |-> thrustBuildupProgress,
   boostWindup |-> boostWindupProgress, wasBoosting |-> wasBoostingLastFrame,
   boostEndAge |-> boostEndAge]

\* a handler that is not a frame: the history records it with its argument
\* and the store it started from, and ends the run
RecordStep(op, arg) ==
  /\ lastOp' = op
  /\ lastDt' = 0
  /\ lastArg' = arg
  /\ pre' = [ship |-> ShipSnapshot', store |-> StoreSnapshot]
  /\ runKind' = "none"
  /\ runMs' = 0
  /\ runHitch' = FALSE
  /\ frames' = frames

\* ... of a handler that touches neither the keyboard, nor the file server,
\* nor the force simulation
RecordArg(op, arg) == RecordStep(op, arg) /\ UNCHANGED envVars

Record(op) == RecordArg(op, None)

\* an input event: the history records it and ends the run
RecordInput(op) ==
  /\ lastOp' = op
  /\ lastDt' = 0
  /\ lastArg' = None
  /\ pre' = [ship |-> ShipSnapshot', store |-> StoreSnapshot']
  /\ runKind' = "none"
  /\ runMs' = 0
  /\ runHitch' = FALSE
  /\ frames' = frames
  /\ UNCHANGED envVars

\* ------------------------------------------------------------------------
\* Store actions
\* ------------------------------------------------------------------------

setCameraMode(mode) ==
  /\ cameraMode' = mode
  /\ CameraModeEffects(cameraMode, mode)
  /\ UNCHANGED <<navVars, keysPressed, flightState, landingVars, editorVars,
                 showSettings, variant, detectorVars, layoutVars>>

selectNode(node) ==
  /\ selectedNode' = node
  /\ UNCHANGED <<viewLevel, currentSystem, cameraMode, keysPressed, flightState,
                 landingVars, editorVars, showSettings, variant, detectorVars, layoutVars, refVars,
                 pointerLocked, cursor>>

\* what a change of the store's showSettings does to ShipControls: the
\* physics-curve controller lists showSettings among the dependencies of its
\* handlers effect, so in fly mode the effect's cleanup runs and the effect
\* registers the handlers again
ShowSettingsEffects(old, new) ==
  IF variant = "curves" /\ cameraMode = "fly" /\ old # new
  THEN /\ pointerLocked' = FALSE
       /\ cursor' = "default"
  ELSE UNCHANGED <<pointerLocked, cursor>>

setShowSettings(show) ==
  /\ showSettings' = show
  /\ ShowSettingsEffects(showSettings, show)
  /\ UNCHANGED <<navVars, cameraMode, keysPressed, flightState, landingVars,
                 editorVars, variant, detectorVars, layoutVars, refVars>>

\* an enterSystem that also switches the camera to orbit mode
enterSystemInOrbit(folder) ==
  /\ viewLevel' = "system"
  /\ currentSystem' = folder
  /\ selectedNode' = folder
  /\ cameraMode' = "orbit"
  /\ CameraModeEffects(cameraMode, "orbit")
  /\ UNCHANGED <<keysPressed, flightState, landingVars, editorVars,
                 showSettings, variant, detectorVars, layoutVars>>

enterSystem(folder) ==
  /\ viewLevel' = "system"
  /\ currentSystem' = folder
  /\ selectedNode' = folder
  /\ UNCHANGED <<cameraMode, keysPressed, flightState, landingVars, editorVars,
                 showSettings, variant, detectorVars, layoutVars, refVars, pointerLocked, cursor>>

\* an exitSystem that leaves the galaxy level's system set
exitSystemKeepsSystem ==
  /\ viewLevel' = "galaxy"
  /\ UNCHANGED <<currentSystem, selectedNode, cameraMode, keysPressed, flightState,
                 landingVars, editorVars, showSettings, variant, detectorVars, layoutVars, refVars,
                 pointerLocked, cursor>>

\* an exitSystem that also drops the selection
exitSystemClearsSelection ==
  /\ viewLevel' = "galaxy"
  /\ currentSystem' = None
  /\ selectedNode' = None
  /\ UNCHANGED <<cameraMode, keysPressed, flightState, landingVars,
                 editorVars, showSettings, variant, detectorVars, layoutVars, refVars, pointerLocked, cursor>>

exitSystem ==
  /\ viewLevel' = "galaxy"
  /\ currentSystem' = None
  /\ UNCHANGED <<selectedNode, cameraMode, keysPressed, flightState, landingVars,
                 editorVars, showSettings, variant, detectorVars, layoutVars, refVars, pointerLocked, cursor>>

\* a landing that leaves the camera mode alone
initiateLandingKeepsCamera(planet) ==
  /\ landingState' = "landed"
  /\ landingTarget' = planet
  /\ isEditorOpen' = TRUE
  /\ UNCHANGED <<navVars, cameraMode, keysPressed, flightState, nearestPlanet,
                 editorContent, hasUnsavedChanges, editorError, showSettings,
                 variant, detectorVars, layoutVars, refVars, pointerLocked, cursor>>

initiateLanding(planet) ==
  /\ landingState' = "landed"
  /\ landingTarget' = planet
  /\ cameraMode' = "orbit"
  /\ isEditorOpen' = TRUE
  /\ CameraModeEffects(cameraMode, "orbit")
  /\ UNCHANGED <<navVars, keysPressed, flightState, nearestPlanet, editorContent,
                 hasUnsavedChanges, editorError, showSettings, variant,
                 detectorVars, layoutVars>>

completeTakeoff ==
  /\ landingState' = "flying"
  /\ landingTarget' = None
  /\ isEditorOpen' = FALSE
  /\ editorContent' = None
  /\ hasUnsavedChanges' = FALSE
  /\ editorError' = None
  /\ cameraMode' = "fly"
  /\ CameraModeEffects(cameraMode, "fly")
  /\ UNCHANGED <<navVars, keysPressed, flightState, nearestPlanet, showSettings,
                 variant, detectorVars, layoutVars>>

\* ------------------------------------------------------------------------
\* Initial state: the store as created, ShipControls mounted (cameraMode
\* starts as fly) and its reset effect run
\* ------------------------------------------------------------------------

InitStore ==
  /\ viewLevel = "galaxy"
  /\ currentSystem = None
  /\ selectedNode = None
  /\ cameraMode = "fly"
  /\ keysPressed = {}
  /\ flightState = [speed |-> 0, isBoosting |-> FALSE, yawVelocity |-> 0,
                    pitchVelocity |-> 0, rollVelocity |-> 0, autoBankAngle |-> 0]
  /\ landingState = "flying"
  /\ landingTarget = None
  /\ nearestPlanet = NoPlanet
  /\ isEditorOpen = FALSE
  /\ editorContent = None
  /\ hasUnsavedChanges = FALSE
  /\ editorError = None
  /\ showSettings = FALSE

InitShip(v) ==
  /\ variant = v
  /\ currentSpeed = ResetSpeed(v)
  /\ isBoosting = FALSE
  /\ currentYawVelocity = 0
  /\ currentPitchVelocity = 0
  /\ currentRollVelocity = 0
  /\ autoBankAngle = 0
  /\ mouseInput = [x |-> 0, y |-> 0]
  /\ thrustBuildupProgress = 0
  /\ boostWindupProgress = 0
  /\ wasBoostingLastFrame = FALSE
  /\ boostEndAge = -1
  /\ previousYawVelocity = 0
  /\ owed = [x |-> 0, y |-> 0]
  /\ pointerLocked = FALSE
  /\ cursor = "default"

InitHistory ==
  /\ lastOp = "init"
  /\ lastDt = 0
  /\ pre = [ship |-> ShipSnapshot, store |-> StoreSnapshot]
  /\ frames = 0
  /\ runKind = "none"
  /\ runMs = 0
  /\ runHitch = FALSE
  /\ lastArg = None

\* the proximity detector as mounted: no frame counted, nothing published
InitDetector ==
  /\ frameCount = 0
  /\ lastNearestId = None
  /\ streak = [node |-> None, count |-> 0]

\* no layout computed yet
InitLayout == layoutRuns = <<>>

\* no key held, no request in flight, every file with its first text,
\* nothing loaded, no simulation called
InitEnv ==
  /\ held = {}
  /\ pendingReads = {}
  /\ pendingWrites = {}
  /\ disk = [f \in Files |-> "a"]
  /\ synced = [f \in Files |-> None]
  /\ sim = [running |-> FALSE]

Init ==
  /\ InitStore
  /\ \E v \in Variants : InitShip(v)
  /\ InitDetector
  /\ InitLayout
  /\ InitEnv
  /\ InitHistory

\* ------------------------------------------------------------------------
\* Navigation: the store's actions as the HUD, the node click handler and
\* the editor call them
\* ------------------------------------------------------------------------

SetCameraMode == \E mode \in CameraModes : setCameraMode(mode) /\ Record("setCameraMode")

SelectNode == \E node \in Nodes \cup {None} : selectNode(node) /\ Record("selectNode")

EnterSystem == \E folder \in Folders : enterSystem(folder) /\ Record("enterSystem")

ExitSystem == exitSystem /\ Record("exitSystem")

InitiateLanding ==
  \E planet \in Files : initiateLanding(planet) /\ RecordArg("initiateLanding", planet)

CompleteTakeoff == completeTakeoff /\ Record("completeTakeoff")

NextNav ==
  \/ SetCameraMode
  \/ SelectNode
  \/ EnterSystem
  \/ ExitSystem
  \/ InitiateLanding
  \/ CompleteTakeoff

SpecNav == Init /\ [][NextNav]_vars

\* ------------------------------------------------------------------------
\* Claims about navigation (SpecNav)
\* ------------------------------------------------------------------------

\* C2: in every state reachable by enterSystem, exitSystem, setCameraMode,
\* landing and takeoff, viewLevel = system if and only if currentSystem is
\* set (and viewLevel = galaxy if and only if it is unset).
C2_SystemLevelIffCurrentSystem ==
  /\ viewLevel \in {"galaxy", "system"}
  /\ (viewLevel = "system") <=> (currentSystem # None)

\* back at the galaxy level after leaving a system
C2_Witness ==
  /\ lastOp = "exitSystem"
  /\ pre.store.viewLevel = "system" /\ pre.store.currentSystem # None
  /\ viewLevel = "galaxy" /\ currentSystem = None

\* C3: enterSystem(folder) called while viewLevel = system is ignored:
\* viewLevel and currentSystem keep their previous values.
C3_EnterSystemIgnoredInSystem ==
  (lastOp = "enterSystem" /\ pre.store.viewLevel = "system")
    => /\ viewLevel = pre.store.viewLevel
       /\ currentSystem = pre.store.currentSystem

\* C4: exitSystem() called while viewLevel = galaxy leaves every field of
\* the state unchanged.
C4_ExitSystemAtGalaxyIsNoOp ==
  (lastOp = "exitSystem" /\ pre.store.viewLevel = "galaxy")
    => StoreSnapshot = pre.store

\* exitSystem at the galaxy level with a node selected and the editor open
C4_Witness ==
  /\ lastOp = "exitSystem"
  /\ pre.store.viewLevel = "galaxy"
  /\ selectedNode # None
  /\ landingState = "landed"
  /\ viewLevel = "galaxy"

\* ------------------------------------------------------------------------
\* Flight controller: input processing
\* ------------------------------------------------------------------------

isThrusting(keys) == keys \cap ThrustKeys # {}

isBraking(keys) == keys \cap BrakeKeys # {}

isRollingLeft(keys) == keys \cap RollLeftKeys # {}

isRollingRight(keys) == keys \cap RollRightKeys # {}

wantsBoost(keys) == keys \cap BoostKeys # {}

\* boost engaged by the boost key alone
BoostingWithoutThrust(keys) == wantsBoost(keys)

\* isBoosting.current = wantsBoost && isThrusting
Boosting(keys) == wantsBoost(keys) /\ isThrusting(keys)

\* |speed| below which an idle ship is stopped
SnapEpsilon(v) == IF v = "curves" THEN 5000 ELSE 15000

\* ------------------------------------------------------------------------
\* Speed management of the three controllers.  c is the controller's speed
\* state (ShipSnapshot), keys the store's keysPressed, delta the frame time.
\* ------------------------------------------------------------------------

\* the final clamp without the snap to zero
ClampOnly(v, speed, keys) == clamp(speed, cfg(v).minSpeed, cfg(v).boostSpeed)

\* snap to zero when close, then clamp to the speed limits
SnapAndClamp(v, speed, keys) ==
  LET snapped == IF Abs(speed) < SnapEpsilon(v) /\ ~isThrusting(keys) /\ ~isBraking(keys)
                 THEN 0 ELSE speed
  IN  clamp(snapped, cfg(v).minSpeed, cfg(v).boostSpeed)

\* the direct controller with boost accelerating at the base rate
DirectManagedBoostNotTripled(c, keys, delta) ==
  LET dt == ClampDt(delta)
      k  == cfg("direct")
  IN  IF Boosting(keys)
      THEN IF k.boostSpeed - c.speed > 0
           THEN c.speed + Min(k.acceleration * dt, k.boostSpeed - c.speed)
           ELSE c.speed
      ELSE IF isThrusting(keys)
      THEN IF c.speed < k.maxSpeed
           THEN c.speed + Min(k.acceleration * dt, k.maxSpeed - c.speed)
           ELSE c.speed
      ELSE IF isBraking(keys)
      THEN c.speed - k.brakeForce * dt
      ELSE c.speed

\* direct controller: speed changes only while a key is held
DirectManaged(c, keys, delta) ==
  LET dt == ClampDt(delta)
      k  == cfg("direct")
  IN  IF Boosting(keys)
      THEN IF k.boostSpeed - c.speed > 0
           THEN c.speed + Min(k.acceleration * 3 * dt, k.boostSpeed - c.speed)
           ELSE c.speed
      ELSE IF isThrusting(keys)
      THEN IF c.speed < k.maxSpeed
           THEN c.speed + Min(k.acceleration * dt, k.maxSpeed - c.speed)
           ELSE c.speed
      ELSE IF isBraking(keys)
      THEN c.speed - k.brakeForce * dt
      ELSE c.speed

DirectSpeed(c, keys, delta) ==
  [c EXCEPT !.speed = SnapAndClamp("direct", DirectManaged(c, keys, delta), keys)]

\* cruise-target controller: the speed moves toward a target, then the
\* minimum speed is enforced
CruiseSpeed(c, keys, delta) ==
  LET dt == ClampDt(delta)
      k  == cfg("cruise")
      targetSpeed == IF Boosting(keys) THEN k.boostSpeed
                     ELSE IF isThrusting(keys) THEN k.maxSpeed
                     ELSE IF isBraking(keys) THEN k.minSpeed
                     ELSE k.normalSpeed
      speedDiff == targetSpeed - c.speed
      accel == IF Boosting(keys) THEN k.acceleration * 3 ELSE k.acceleration
      decel == IF isBraking(keys) THEN k.brakeForce ELSE k.deceleration
      s1 == IF speedDiff > 0 THEN c.speed + Min(accel * dt, speedDiff)
            ELSE IF speedDiff < 0 THEN c.speed + Max(-(decel * dt), speedDiff)
            ELSE c.speed
  IN  [c EXCEPT !.speed = Max(s1, k.minSpeed)]

\* lerp toward the drift speed in the first boostMomentumDecay ms after a boost
DriftLerp(speed, age, dt) ==
  LET remaining    == 1000 - Div(age * 1000, physics.boostMomentumDecay)
      decayMult    == Div(remaining * remaining, 1000)
      t            == Div(dt * (1000 - decayMult), 2)
      driftTarget  == Div(cfg("curves").maxSpeed, 1000) * physics.driftRetention
  IN  speed + Div(Div(driftTarget - speed, 1000) * t, 1000)

\* friction of the drift branch
Friction(speed, dt) == speed - Div(Div(speed * physics.frictionCoefficient, 1000) * dt, 1000)

\* physics-curve controller: thrust buildup, boost windup, drift and friction
CurvesManaged(c, keys, delta) ==
  LET dt == ClampDt(delta)
      k  == cfg("curves")
      boosting == Boosting(keys)
      \* Date.now() has advanced by the frame time since the last frame
      aged == IF c.boostEndAge < 0 THEN -1
              ELSE Min(c.boostEndAge + delta, physics.boostMomentumDecay)
      age  == IF boosting /\ ~c.wasBoosting THEN -1
              ELSE IF ~boosting /\ c.wasBoosting THEN 0
              ELSE aged
      tb == IF isThrusting(keys)
            THEN Min(1000, c.thrustBuildup + Div(dt * 1000, physics.thrustBuildupTime))
            ELSE Max(0, c.thrustBuildup - Div(dt * 2000, physics.thrustBuildupTime))
      bw == IF boosting
            THEN Min(1000, c.boostWindup + Div(dt * 1000, physics.boostWindupTime))
            ELSE 0
      thrustCurve == Div(tb * tb, 1000)
      s1 == IF boosting
            THEN IF k.boostSpeed - c.speed > 0
                 THEN c.speed + Min(Div(Div(k.acceleration * 3 * dt * bw, 1000) * thrustCurve, 1000),
                                    k.boostSpeed - c.speed)
                 ELSE c.speed
            ELSE IF isThrusting(keys)
            THEN IF c.speed < k.maxSpeed
                 THEN c.speed + Min(Div(k.acceleration * dt * thrustCurve, 1000),
                                    k.maxSpeed - c.speed)
                 ELSE c.speed
            ELSE IF isBraking(keys)
            THEN c.speed - k.brakeForce * dt
            ELSE Friction(IF age >= 0 /\ age < physics.boostMomentumDecay
                          THEN DriftLerp(c.speed, age, dt) ELSE c.speed, dt)
  IN  [speed |-> s1, thrustBuildup |-> tb, boostWindup |-> bw,
       wasBoosting |-> boosting, boostEndAge |-> age]

CurvesSpeed(c, keys, delta) ==
  LET m == CurvesManaged(c, keys, delta)
  IN  [m EXCEPT !.speed = SnapAndClamp("curves", m.speed, keys)]

\* the speed of the direct and physics-curve controllers at their snap check
ManagedSpeed(v, c, keys, delta) ==
  IF v = "curves" THEN CurvesManaged(c, keys, delta).speed
  ELSE DirectManaged(c, keys, delta)

\* the speed state after one frame of controller v
SpeedStep(v, c, keys, delta) ==
  CASE v = "cruise" -> CruiseSpeed(c, keys, delta)
    [] v = "direct" -> DirectSpeed(c, keys, delta)
    [] v = "curves" -> CurvesSpeed(c, keys, delta)

\* ------------------------------------------------------------------------
\* Rotation of the three controllers (the camera transform itself is not
\* part of the model)
\* ------------------------------------------------------------------------

\* cfg.mouseSensitivity in 1/10000 rad per pixel
MouseSensitivity(v) ==
  CASE v = "cruise" -> 15
    [] v = "direct" -> 40
    [] v = "curves" -> 350

\* agility multiplier in 1/1000
Agility(v, speed, keys) ==
  LET k == cfg(v)
      speedNormalized ==
        IF v = "cruise"
        THEN Div(speed - k.minSpeed, Div(k.maxSpeed - k.minSpeed, 1000))
        ELSE Div(Abs(speed), Div(k.maxSpeed, 1000))
  IN  IF Boosting(keys) THEN 150
      ELSE 1000 - Div(700 * Min(speedNormalized, 1000), 1000)

\* cur += (target - cur) * Math.min(rate * dt, 1)
Smooth(cur, target, rate, dt) == cur + Div((target - cur) * Min(rate * dt, 1000), 1000)

\* r is [yaw, pitch, roll, bank, prevYaw]; speed is the speed after this
\* frame's speed management
RotationStep(v, r, mouse, speed, keys, delta) ==
  LET dt == ClampDt(delta)
      k  == cfg(v)
      agility == Agility(v, speed, keys)
      mouseX == Div(mouse.x * MouseSensitivity(v), 10)
      mouseY == Div(mouse.y * MouseSensitivity(v), 10)
      effectiveYaw   == Div(Div(mouseX * 12, 10) * agility, 1000)
      effectivePitch == Div(Div(mouseY * 15, 10) * agility, 1000)
      hasMouseInput  == Abs(mouseX) > 1 \/ Abs(mouseY) > 1
      yaw   == IF v = "curves"
               THEN IF hasMouseInput THEN effectiveYaw ELSE 0
               ELSE Smooth(r.yaw, effectiveYaw, 8, dt)
      pitch == IF v = "curves"
               THEN IF hasMouseInput THEN effectivePitch ELSE 0
               ELSE Smooth(r.pitch, effectivePitch, 8, dt)
      targetRollVelocity == IF isRollingRight(keys) THEN k.rollRate
                            ELSE IF isRollingLeft(keys) THEN -k.rollRate
                            ELSE 0
      roll == Smooth(r.roll, targetRollVelocity, 6, dt)
      speedBankMultiplier == 1000 + Div(Abs(speed), Div(k.maxSpeed, 1000))
      counterBank == Div(-(yaw - r.prevYaw) * 75, 10)
      mainBank == Div(-yaw * 8 * speedBankMultiplier, 1000)
      targetBankAngle == IF v = "curves" THEN mainBank + counterBank ELSE -yaw * 8
      bank == Smooth(r.bank, targetBankAngle, IF v = "curves" THEN 2 ELSE 3, dt)
  IN  [yaw |-> yaw, pitch |-> pitch, roll |-> roll, bank |-> bank,
       prevYaw |-> IF v = "curves" THEN yaw ELSE r.prevYaw]

\* ------------------------------------------------------------------------
\* The held-key run the history follows: consecutive frames with the same
\* thrust/boost keys held, starting at a frame that began at speed 0
\* ------------------------------------------------------------------------

RunKindOf(keys) ==
  IF Boosting(keys) THEN "boost"
  ELSE IF isThrusting(keys) /\ ~isBraking(keys) THEN "thrust"
  ELSE "none"

RunAfter(keys, delta, followed) ==
  LET kind == IF followed THEN RunKindOf(keys) ELSE "none"
  IN  IF kind # "none" /\ currentSpeed = 0
      THEN [kind |-> kind, ms |-> delta, hitch |-> delta > MaxDt]
      ELSE IF kind # "none" /\ kind = runKind /\ runMs + delta <= MaxRunMs
      THEN [kind |-> kind, ms |-> runMs + delta, hitch |-> runHitch \/ delta > MaxDt]
      ELSE [kind |-> "none", ms |-> 0, hitch |-> FALSE]

\* ------------------------------------------------------------------------
\* One frame of ShipControls (useFrame).  counted: the frame advances the
\* frame counter that bounds the model; followed: the history follows the
\* held-key run
\* ------------------------------------------------------------------------

updateFlightState(ship, rot, keys) ==
  flightState' = [speed |-> ship.speed, isBoosting |-> Boosting(keys),
                  yawVelocity |-> rot.yaw, pitchVelocity |-> rot.pitch,
                  rollVelocity |-> rot.roll, autoBankAngle |-> rot.bank]

useFrame(delta, counted, followed) ==
  /\ cameraMode = "fly"
  /\ LET ship == SpeedStep(variant, ShipSnapshot, keysPressed, delta)
         rot  == RotationStep(variant,
                   [yaw |-> currentYawVelocity, pitch |-> currentPitchVelocity,
                    roll |-> currentRollVelocity, bank |-> autoBankAngle,
                    prevYaw |-> previousYawVelocity],
                   mouseInput, ship.speed, keysPressed, delta)
         run  == RunAfter(keysPressed, delta, followed)
     IN  /\ isBoosting' = Boosting(keysPressed)
         /\ currentSpeed' = ship.speed
         /\ thrustBuildupProgress' = ship.thrustBuildup
         /\ boostWindupProgress' = ship.boostWindup
         /\ wasBoostingLastFrame' = ship.wasBoosting
         /\ boostEndAge' = ship.boostEndAge
         /\ currentYawVelocity' = rot.yaw
         /\ currentPitchVelocity' = rot.pitch
         /\ currentRollVelocity' = rot.roll
         /\ autoBankAngle' = rot.bank
         /\ previousYawVelocity' = rot.prevYaw
         /\ mouseInput' = [x |-> 0, y |-> 0]
         /\ owed' = [x |-> owed.x - mouseInput.x, y |-> owed.y - mouseInput.y]
         /\ updateFlightState(ship, rot, keysPressed)
         /\ runKind' = run.kind
         /\ runMs' = run.ms
         /\ runHitch' = run.hitch
  /\ UNCHANGED <<navVars, cameraMode, keysPressed, landingVars, editorVars,
                 showSettings, variant, detectorVars, layoutVars, pointerLocked, cursor>>
  /\ lastOp' = "tick"
  /\ lastDt' = delta
  /\ lastArg' = mouseInput
  /\ UNCHANGED envVars
  /\ pre' = [ship |-> ShipSnapshot, store |-> StoreSnapshot']
  /\ frames' = IF counted THEN frames + 1 ELSE frames

\* ------------------------------------------------------------------------
\* Handlers ShipControls registers while cameraMode is fly
\* ------------------------------------------------------------------------

setKeyPressed(key, pressed) ==
  /\ keysPressed' = IF pressed THEN keysPressed \cup {key} ELSE keysPressed \ {key}
  /\ UNCHANGED <<navVars, cameraMode, flightState, landingVars, editorVars,
                 showSettings, variant, detectorVars, layoutVars, refVars, pointerLocked, cursor>>

\* Escape: document.exitPointerLock(), then setCameraMode('orbit'), which
\* the physics-curve controller skips while the settings menu is open
\* an Escape handler that leaves fly mode whatever the settings menu shows
escapeAlwaysExitsFly == TRUE

\* the direct and cruise handlers call setCameraMode('orbit') on Escape;
\* the physics-curve handler only if (!showSettings)
escapeExitsFly == ~(variant = "curves" /\ showSettings)

onEscape ==
  IF escapeExitsFly
  THEN setCameraMode("orbit")
  ELSE /\ pointerLocked' = FALSE
       /\ cursor' = IF pointerLocked THEN "default" ELSE cursor
       /\ UNCHANGED <<storeVars, refVars, variant, detectorVars, layoutVars>>

onKeyDown(code) ==
  /\ cameraMode = "fly"
  /\ IF code = "Escape"
     THEN onEscape
     ELSE IF code \in FLIGHT_KEYS
     THEN setKeyPressed(code, TRUE)
     ELSE UNCHANGED <<storeVars, refVars, variant, detectorVars, layoutVars, pointerLocked, cursor>>

onKeyUp(code) ==
  /\ cameraMode = "fly"
  /\ IF code \in FLIGHT_KEYS
     THEN setKeyPressed(code, FALSE)
     ELSE UNCHANGED <<storeVars, refVars, variant, detectorVars, layoutVars, pointerLocked, cursor>>

onClick ==
  /\ cameraMode = "fly"
  /\ pointerLocked' = TRUE
  /\ cursor' = cursor
  /\ UNCHANGED <<storeVars, refVars, variant, detectorVars, layoutVars>>

\* a handler that stores the last movement instead of adding it
onMouseMoveOverwrite(movementX, movementY) ==
  /\ cameraMode = "fly"
  /\ mouseInput' = IF pointerLocked
                   THEN [x |-> movementX, y |-> movementY]
                   ELSE mouseInput
  /\ owed' = IF pointerLocked
             THEN [x |-> owed.x + movementX, y |-> owed.y + movementY]
             ELSE owed
  /\ UNCHANGED <<storeVars, variant, detectorVars, layoutVars, pointerLocked, cursor, currentSpeed, isBoosting,
                 currentYawVelocity, currentPitchVelocity, currentRollVelocity,
                 autoBankAngle, thrustBuildupProgress, boostWindupProgress,
                 wasBoostingLastFrame, boostEndAge, previousYawVelocity>>

onMouseMove(movementX, movementY) ==
  /\ cameraMode = "fly"
  /\ mouseInput' = IF pointerLocked
                   THEN [x |-> mouseInput.x + movementX, y |-> mouseInput.y + movementY]
                   ELSE mouseInput
  /\ owed' = IF pointerLocked
             THEN [x |-> owed.x + movementX, y |-> owed.y + movementY]
             ELSE owed
  /\ UNCHANGED <<storeVars, variant, detectorVars, layoutVars, pointerLocked, cursor, currentSpeed, isBoosting,
                 currentYawVelocity, currentPitchVelocity, currentRollVelocity,
                 autoBankAngle, thrustBuildupProgress, boostWindupProgress,
                 wasBoostingLastFrame, boostEndAge, previousYawVelocity>>

\* ------------------------------------------------------------------------
\* Flight: keys and frames of one fly session of any of the three controllers
\* ------------------------------------------------------------------------

\* the keys pressed and released in the flight specification
SpeedKeys == {"KeyW", "KeyS", "ShiftLeft"}

KeyDown == \E code \in SpeedKeys : onKeyDown(code) /\ RecordInput("keydown")

KeyUp == \E code \in SpeedKeys : onKeyUp(code) /\ RecordInput("keyup")

Frame ==
  \E delta \in Deltas :
    /\ variant = "curves" => frames < MaxCurveTicks
    /\ useFrame(delta, variant = "curves", FALSE)

NextFlight ==
  \/ KeyDown
  \/ KeyUp
  \/ Frame

SpecFlight == Init /\ [][NextFlight]_vars

\* ------------------------------------------------------------------------
\* Claims about the speed management of one frame (SpecFlight)
\* ------------------------------------------------------------------------

\* C1: after every frame of the flight controller, whatever keys are held
\* and whatever the frame time, minSpeed <= speed <= boostSpeed.
C1_SpeedWithinLimits ==
  lastOp = "tick" =>
    /\ cfg(variant).minSpeed <= currentSpeed
    /\ currentSpeed <= cfg(variant).boostSpeed

\* a braking frame that started at the reverse limit and was clamped to it
C1_Witness ==
  /\ lastOp = "tick"
  /\ variant = "direct"
  /\ isBraking(keysPressed) /\ ~isThrusting(keysPressed)
  /\ pre.ship.speed = cfg(variant).minSpeed
  /\ currentSpeed = cfg(variant).minSpeed

\* a frame with no thrust, brake or boost key held
IdleFrame == lastOp = "tick" /\ RunKindOf(keysPressed) = "none"
             /\ ~isThrusting(keysPressed) /\ ~isBraking(keysPressed)
             /\ ~wantsBoost(keysPressed)

\* C6: in a frame of the direct or physics-curve controller with no thrust,
\* brake or boost held and |speed| >= epsilon, the speed after the frame
\* equals the speed before it.
C6_CoastsWhenIdle ==
  (IdleFrame /\ variant # "cruise" /\ Abs(pre.ship.speed) >= SnapEpsilon(variant))
    => currentSpeed = pre.ship.speed

\* C7: in a frame of the direct or physics-curve controller with neither
\* thrust nor brake held and |speed| < epsilon at the snap check, the speed
\* after the frame is exactly 0.
C7_SnapToZero ==
  ( /\ lastOp = "tick"
    /\ variant # "cruise"
    /\ ~isThrusting(keysPressed) /\ ~isBraking(keysPressed)
    /\ Abs(ManagedSpeed(variant, pre.ship, keysPressed, lastDt)) < SnapEpsilon(variant) )
    => currentSpeed = 0

\* an idle frame that began at a small nonzero speed and ended at 0
C7_Witness ==
  /\ lastOp = "tick"
  /\ variant # "cruise"
  /\ ~isThrusting(keysPressed) /\ ~isBraking(keysPressed)
  /\ pre.ship.speed # 0
  /\ Abs(ManagedSpeed(variant, pre.ship, keysPressed, lastDt)) < SnapEpsilon(variant)
  /\ currentSpeed = 0

\* C10: in a frame with a boost key held but no thrust key held, isBoosting
\* is false and the speed state is the one the same frame produces with the
\* boost keys released.
C10_BoostNeedsThrust ==
  (lastOp = "tick" /\ wantsBoost(keysPressed) /\ ~isThrusting(keysPressed))
    => /\ isBoosting = FALSE
       /\ flightState.isBoosting = FALSE
       /\ ShipSnapshot = SpeedStep(variant, pre.ship, keysPressed \ BoostKeys, lastDt)

\* a braking frame with boost held and no thrust: the brake rule applied
C10_Witness ==
  /\ lastOp = "tick"
  /\ wantsBoost(keysPressed) /\ ~isThrusting(keysPressed) /\ isBraking(keysPressed)
  /\ currentSpeed < pre.ship.speed

\* ------------------------------------------------------------------------
\* Rotation: mode switches, landing and takeoff, pointer lock, mouse
\* movement, thrust and roll keys pressed and held, and a bounded number of
\* frames
\* ------------------------------------------------------------------------

RotKeys == {"KeyW", "KeyD"}

RotDeltas == {100}

RotKeyDown == \E code \in RotKeys : onKeyDown(code) /\ RecordInput("keydown")

Click == onClick /\ RecordInput("click")

MouseMove ==
  \E movement \in Movements :
    /\ Abs(mouseInput.x + movement[1]) <= MaxMouse
    /\ Abs(mouseInput.y + movement[2]) <= MaxMouse
    /\ onMouseMove(movement[1], movement[2])
    /\ RecordInput("mousemove")

RotFrame ==
  \E delta \in RotDeltas :
    /\ frames < MaxRotTicks
    /\ useFrame(delta, TRUE, FALSE)

\* a click on a file planet in orbit mode
RotLanding == initiateLanding("main.ts") /\ RecordArg("initiateLanding", "main.ts")

NextRot ==
  \/ SetCameraMode
  \/ RotLanding
  \/ CompleteTakeoff
  \/ RotKeyDown
  \/ Click
  \/ MouseMove
  \/ RotFrame

SpecRot == Init /\ [][NextRot]_vars

\* the last operation switched cameraMode into fly
EnteredFly ==
  /\ lastOp \in {"setCameraMode", "completeTakeoff"}
  /\ pre.store.cameraMode # "fly"
  /\ cameraMode = "fly"

ScenarioKeys == {"KeyW", "ShiftLeft"}

ScenarioKeyDown ==
  /\ lastOp # "tick"
  /\ \E code \in ScenarioKeys : onKeyDown(code) /\ RecordInput("keydown")

ScenarioFrame ==
  \E delta \in Deltas :
    /\ RunKindOf(keysPressed) # "none"
    /\ lastOp = "tick" => runKind # "none"
    /\ runMs + delta <= MaxRunMs
    /\ variant = "curves" => frames < MaxCurveTicks
    /\ useFrame(delta, variant = "curves", TRUE)

NextScenario ==
  \/ ScenarioKeyDown
  \/ ScenarioFrame

SpecScenario == Init /\ [][NextScenario]_vars

\* C8 as stated: from speed 0, after frames with thrust held (no boost, no
\* brake) whose frame times total 2 seconds, however split, the speed is 300.
C8_ThrustTwoSecondsAnySplit ==
  (variant # "cruise" /\ runKind = "thrust" /\ runMs = 2000)
    => currentSpeed = Min(0 + 150 * 2000, cfg(variant).maxSpeed)

\* C8 amended: in the direct controller, from speed 0, after frames of at
\* most 0.1 s each with thrust held (no boost, no brake) whose frame times
\* total 2 seconds, the speed is min(0 + 150*2, 3000) = 300.
C8_ThrustTwoSecondsShortFrames ==
  (variant = "direct" /\ runKind = "thrust" /\ ~runHitch /\ runMs = 2000)
    => currentSpeed = Min(0 + 150 * 2000, cfg(variant).maxSpeed)

\* two seconds of thrust in the direct controller ending with a 50 ms frame
C8_Witness ==
  /\ variant = "direct" /\ runKind = "thrust" /\ ~runHitch /\ runMs = 2000
  /\ lastDt = 50
  /\ currentSpeed = 300000

\* C9 as stated: from speed 0, after frames with boost and thrust held whose
\* frame times total 1 second, the speed is min(450, boostSpeed).
C9_BoostOneSecondAnySplit ==
  (variant # "cruise" /\ runKind = "boost" /\ runMs = 1000)
    => currentSpeed = Min(450000, cfg(variant).boostSpeed)

\* C9 amended: in the direct controller, from speed 0, after frames of at
\* most 0.1 s each with boost and thrust held whose frame times total 1
\* second, the speed is min(450, boostSpeed).
C9_BoostOneSecondShortFrames ==
  (variant = "direct" /\ runKind = "boost" /\ ~runHitch /\ runMs = 1000)
    => currentSpeed = Min(450000, cfg(variant).boostSpeed)

\* one second of boost in the direct controller ending with a 50 ms frame
C9_Witness ==
  /\ variant = "direct" /\ runKind = "boost" /\ ~runHitch /\ runMs = 1000
  /\ lastDt = 50
  /\ isBoosting
  /\ currentSpeed = 450000

\* ------------------------------------------------------------------------
\* Proximity detector (useProximityDetection): one frame of its useFrame
\* callback.  Distances are surface distances, distanceToCenter - radius.
\* ------------------------------------------------------------------------

LANDING_RANGE == 1000

APPROACH_RANGE == 3000

FRAME_SKIP == 3

\* surface distances from the camera to a planet at a frame: touching, at
\* the landing range, between the two ranges, at the approach range
Distances == {0, 1000, 2000, 3000}

\* planetRegistry in insertion order, each planet with its surface distance
\* from the camera at the frame
Registries ==
  {<<>>}
  \cup {<<[node |-> f, distance |-> d]>> : f \in Files, d \in Distances}
  \cup {r \in {<<[node |-> f, distance |-> d], [node |-> g, distance |-> e]>> :
                 f \in Files, g \in Files, d \in Distances, e \in Distances} :
          r[1].node # r[2].node}

\* a search that keeps the last planet in range, not the nearest
RECURSIVE NearestFromLastInRange(_, _, _)
NearestFromLastInRange(registry, i, nearest) ==
  IF i > Len(registry) THEN nearest
  ELSE NearestFromLastInRange(registry, i + 1,
         IF registry[i].distance < APPROACH_RANGE THEN registry[i] ELSE nearest)

\* planetRegistry.forEach from entry i on, nearest being the nearest so far
RECURSIVE NearestFrom(_, _, _)
NearestFrom(registry, i, nearest) ==
  IF i > Len(registry) THEN nearest
  ELSE LET planet == registry[i]
           closer == /\ (nearest.node = None \/ planet.distance < nearest.distance)
                     /\ planet.distance < APPROACH_RANGE
       IN  NearestFrom(registry, i + 1, IF closer THEN planet ELSE nearest)

NearestPlanet(registry) == NearestFrom(registry, 1, NoPlanet)

\* a detector that runs in every camera mode
detectorRunsInAnyMode == landingState # "landed"

\* the guard of the callback
detectorRuns == cameraMode = "fly" /\ landingState # "landed"

\* sampling every sixth counted frame
isSamplingFrameEverySixth(count) == count % (2 * FRAME_SKIP) = 0

isSamplingFrame(count) == count % FRAME_SKIP = 0

\* a detector that lands by itself within the landing range
proximityStateAutoLand(distance) ==
  IF distance <= LANDING_RANGE THEN "landed" ELSE "flying"

\* newState = canLand ? 'approaching' : 'flying'
proximityState(distance) ==
  IF distance <= LANDING_RANGE THEN "approaching" ELSE "flying"

\* a no-planet branch that leaves landingState alone
noPlanetNearbyKeepsApproaching ==
  IF lastNearestId # None
  THEN /\ nearestPlanet' = NoPlanet
       /\ lastNearestId' = None
       /\ UNCHANGED landingState
  ELSE UNCHANGED <<landingState, nearestPlanet, lastNearestId>>

\* the branch for no planet in range
noPlanetNearby ==
  IF lastNearestId # None
  THEN /\ nearestPlanet' = NoPlanet
       /\ landingState' = IF landingState = "approaching" THEN "flying"
                          ELSE landingState
       /\ lastNearestId' = None
  ELSE UNCHANGED <<landingState, nearestPlanet, lastNearestId>>

proximityFrame(registry) ==
  /\ IF ~detectorRuns
     THEN UNCHANGED <<landingState, nearestPlanet, frameCount, lastNearestId>>
     ELSE /\ frameCount' = frameCount + 1
          /\ IF ~isSamplingFrame(frameCount + 1)
             THEN UNCHANGED <<landingState, nearestPlanet, lastNearestId>>
             ELSE LET planet == NearestPlanet(registry)
                  IN  IF planet.node # None
                      THEN /\ landingState' = proximityState(planet.distance)
                           /\ nearestPlanet' = planet
                           /\ lastNearestId' = planet.node
                      ELSE noPlanetNearby
  /\ streak' = LET planet == NearestPlanet(registry)
               IN  IF detectorRuns /\ planet.node # None
                   THEN [node |-> planet.node,
                         count |-> IF streak.node = planet.node
                                   THEN Min(streak.count + 1, FRAME_SKIP)
                                   ELSE 1]
                   ELSE [node |-> None, count |-> 0]
  /\ UNCHANGED <<navVars, cameraMode, keysPressed, flightState, landingTarget,
                 editorVars, showSettings, refVars, variant, layoutVars,
                 pointerLocked, cursor>>

\* ------------------------------------------------------------------------
\* Proximity: detector frames with the planets anywhere, mode switches,
\* landing and takeoff
\* ------------------------------------------------------------------------

DetectorFrame ==
  \E registry \in Registries :
    /\ detectorRuns => frameCount < MaxDetectorFrames
    /\ proximityFrame(registry)
    /\ RecordArg("proximity", registry)

NextProx ==
  \/ DetectorFrame
  \/ SetCameraMode
  \/ InitiateLanding
  \/ CompleteTakeoff

SpecProx == Init /\ [][NextProx]_vars

\* the last step was a detector frame that passed the guard
DetectorRan ==
  /\ lastOp = "proximity"
  /\ pre.store.cameraMode = "fly"
  /\ pre.store.landingState # "landed"

\* ... and was a frame on which the registry is searched
Sampled == DetectorRan /\ frameCount % FRAME_SKIP = 0

\* the planets of the last frame's registry inside the approach range
InApproachRange(registry) ==
  {i \in 1..Len(registry) : registry[i].distance < APPROACH_RANGE}

\* the smallest surface distance among them
MinDistance(registry) ==
  CHOOSE d \in {registry[i].distance : i \in InApproachRange(registry)} :
    \A i \in InApproachRange(registry) : d <= registry[i].distance

\* C11: a detector frame outside fly mode, or while landed, changes neither
\* landingState nor nearestPlanet.
C11_DetectorOnlyInFlyAndNotLanded ==
  (lastOp = "proximity" /\ ~DetectorRan)
    => /\ landingState = pre.store.landingState
       /\ nearestPlanet = pre.store.nearestPlanet

\* an orbit-mode frame with a planet inside the landing range that was left
\* unreported
C11_Witness ==
  /\ lastOp = "proximity"
  /\ pre.store.cameraMode = "orbit"
  /\ InApproachRange(lastArg) # {}
  /\ MinDistance(lastArg) <= LANDING_RANGE
  /\ landingState = "flying"
  /\ nearestPlanet = NoPlanet

\* C12 as stated: on a sampling frame with a planet inside the approach
\* range, landingState becomes approaching and the nearest planet and its
\* distance are published.
C12_ApproachingWithinApproachRange ==
  (Sampled /\ InApproachRange(lastArg) # {})
    => /\ landingState = "approaching"
       /\ nearestPlanet.node # None
       /\ nearestPlanet.distance = MinDistance(lastArg)

\* C12 amended: on a sampling frame with a planet inside the approach range
\* the nearest planet and its distance are published, and landingState
\* becomes approaching when that distance is within the landing range and
\* flying otherwise.
C12_ApproachingWithinLandingRange ==
  (Sampled /\ InApproachRange(lastArg) # {})
    => /\ \E i \in InApproachRange(lastArg) : nearestPlanet = lastArg[i]
       /\ nearestPlanet.distance = MinDistance(lastArg)
       /\ landingState = IF MinDistance(lastArg) <= LANDING_RANGE
                         THEN "approaching" ELSE "flying"

\* a sampling frame with two planets in range, the second one nearer,
\* between the landing range and the approach range
C12_Witness ==
  /\ Sampled
  /\ Len(lastArg) = 2
  /\ lastArg[1].distance = 2000
  /\ lastArg[2].distance = 1000
  /\ nearestPlanet = lastArg[2]
  /\ landingState = "approaching"

\* C13: on a sampling frame with no planet inside the approach range,
\* nearestPlanet is cleared and landingState is flying.
C13_NothingInRangeClears ==
  (Sampled /\ InApproachRange(lastArg) = {})
    => /\ nearestPlanet = NoPlanet
       /\ landingState = "flying"

\* a sampling frame that left the range while approaching a planet
C13_Witness ==
  /\ Sampled
  /\ InApproachRange(lastArg) = {}
  /\ Len(lastArg) > 0
  /\ pre.store.landingState = "approaching"
  /\ pre.store.nearestPlanet # NoPlanet
  /\ nearestPlanet = NoPlanet
  /\ landingState = "flying"

\* C14: landingState becomes landed only by the landing action; the
\* detector never sets it, however close the ship is.
C14_LandedOnlyByLanding ==
  (landingState = "landed" /\ pre.store.landingState # "landed")
    => lastOp = "initiateLanding"

\* a sampling frame touching a planet's surface, still only approaching
C14_Witness ==
  /\ Sampled
  /\ InApproachRange(lastArg) # {}
  /\ MinDistance(lastArg) = 0
  /\ pre.store.landingState = "approaching"
  /\ landingState = "approaching"

\* C15: after the landing action, from any state, landingState is landed,
\* the landing target is the chosen planet, the camera is in orbit mode and
\* the editor is open.
C15_LandingActionEffects ==
  lastOp = "initiateLanding"
    => /\ landingState = "landed"
       /\ landingTarget = lastArg
       /\ cameraMode = "orbit"
       /\ isEditorOpen

\* a landing from fly mode while approaching another planet than the target
C15_Witness ==
  /\ lastOp = "initiateLanding"
  /\ pre.store.cameraMode = "fly"
  /\ pre.store.landingState = "approaching"
  /\ pre.store.nearestPlanet.node # lastArg
  /\ landingTarget = lastArg
  /\ cameraMode = "orbit"

PendingMouseMove ==
  \E movement \in Movements :
    /\ Abs(mouseInput.x + movement[1]) <= MaxPending
    /\ Abs(mouseInput.y + movement[2]) <= MaxPending
    /\ onMouseMove(movement[1], movement[2])
    /\ RecordInput("mousemove")

NextMouse ==
  \/ SetCameraMode
  \/ Click
  \/ PendingMouseMove
  \/ RotFrame

SpecMouse == Init /\ [][NextMouse]_vars

\* C17: within a fly session the mouse accumulator holds exactly the
\* movement delivered since the last frame read it, and a frame leaves it at
\* zero: every movement is read by one frame, none is lost and none is read
\* twice.
C17_MouseInputDrainedOnce ==
  /\ mouseInput = owed
  /\ lastOp = "tick" => mouseInput = [x |-> 0, y |-> 0]

\* a frame that read two mouse events delivered since the frame before it
C17_Witness ==
  /\ lastOp = "tick"
  /\ frames = 2
  /\ lastArg = [x |-> 0, y |-> 80]
  /\ mouseInput = [x |-> 0, y |-> 0]
  /\ currentPitchVelocity # 0

\* ------------------------------------------------------------------------
\* Pointer and Escape: mode switches from the HUD, landing and takeoff,
\* pointer lock, the settings menu, hovering a node, and the Escape key
\* ------------------------------------------------------------------------

\* one Escape keydown: the document listener of ShipControls (registered in
\* fly mode), then the window listener of SettingsMenu, which closes an open
\* menu; both read the showSettings of the last render
pressEscape ==
  LET exits == cameraMode = "fly" /\ escapeExitsFly
  IN  /\ showSettings' = FALSE
      /\ cameraMode' = IF exits THEN "orbit" ELSE cameraMode
      /\ IF exits
         THEN UnmountShipControls
         ELSE IF cameraMode = "fly"
         THEN /\ pointerLocked' = FALSE
              /\ cursor' = IF pointerLocked \/ showSettings THEN "default" ELSE cursor
              /\ UNCHANGED refVars
         ELSE UNCHANGED <<refVars, pointerLocked, cursor>>
      /\ UNCHANGED <<navVars, keysPressed, flightState, landingVars, editorVars,
                     variant, detectorVars, layoutVars>>

\* useNodeInteraction: the pointer enters a node
onPointerOver ==
  /\ ~(cameraMode = "fly" \/ pointerLocked)
  /\ cursor' = "pointer"
  /\ UNCHANGED <<storeVars, refVars, variant, detectorVars, layoutVars, pointerLocked>>

\* useNodeInteraction: the pointer leaves a node
onPointerOut ==
  /\ ~(cameraMode = "fly" \/ pointerLocked)
  /\ cursor' = "default"
  /\ UNCHANGED <<storeVars, refVars, variant, detectorVars, layoutVars, pointerLocked>>

\* the document before the step: the pointer lock and the cursor
DocumentSnapshot == [locked |-> pointerLocked, cursor |-> cursor]

Escape == pressEscape /\ RecordArg("escape", DocumentSnapshot)

SetShowSettings ==
  \E show \in BOOLEAN : setShowSettings(show) /\ RecordArg("setShowSettings", DocumentSnapshot)

PointerOver == onPointerOver /\ Record("pointerover")

PointerOut == onPointerOut /\ Record("pointerout")

NextPointer ==
  \/ SetCameraMode
  \/ InitiateLanding
  \/ CompleteTakeoff
  \/ Click
  \/ Escape
  \/ SetShowSettings
  \/ PointerOver
  \/ PointerOut

SpecPointer == Init /\ [][NextPointer]_vars

\* C18: after every step that takes cameraMode from fly to orbit (Escape,
\* the HUD's setCameraMode, the landing action) the pointer lock is released
\* and the cursor is the default one.
C18_OrbitReleasesPointer ==
  (pre.store.cameraMode = "fly" /\ cameraMode = "orbit")
    => /\ ~pointerLocked
       /\ cursor = "default"

\* Escape pressed in fly mode with the pointer locked and the cursor left as
\* the hover cursor of orbit mode
C18_Witness ==
  /\ lastOp = "escape"
  /\ lastArg = [locked |-> TRUE, cursor |-> "pointer"]
  /\ pre.store.cameraMode = "fly"
  /\ cameraMode = "orbit"
  /\ ~pointerLocked
  /\ cursor = "default"

Pi == 3142

\* Math.sin of an angle >= 0, by Bhaskara's rational approximation on
\* [0, Pi] and sin(r + Pi) = -sin(r)
Sin(a) ==
  LET r == a % (2 * Pi)
      h == IF r <= Pi THEN r ELSE r - Pi
      p == h * (Pi - h)
      s == Div(16 * p, Div(5 * Pi * Pi - 4 * p, 1000))
  IN  IF r <= Pi THEN s ELSE 0 - s

\* Math.cos of an angle >= 0
Cos(a) == Sin(a + Div(Pi, 2))

BASE_SPACING == 3000

DEPTH_SPACING == 2000

baseSpacing == 2000

depthMultiplier == 1500

verticalSpread == 500

RootPath == "root"

\* folder trees: the child folders of every folder, in the order of
\* node.children (files are filtered out by both layouts): one folder, two
\* sibling folders, a folder in a folder
Trees ==
  { [root |-> <<"src">>, src |-> <<>>, docs |-> <<>>],
    [root |-> <<"src", "docs">>, src |-> <<>>, docs |-> <<>>],
    [root |-> <<"src">>, src |-> <<"docs">>, docs |-> <<>>] }

\* values of Math.random(), in 1/1000
RandomDraws == {250, 750}

\* the draws one layout call may make: three for each folder
DrawSequences == [1..(3 * Cardinality(Folders)) -> RandomDraws]

\* a radius that is the same for every folder
systemRadiusFlat(parentRadius, depth) == BASE_SPACING

\* radius = parentRadius + BASE_SPACING + depth * DEPTH_SPACING
systemRadius(parentRadius, depth) ==
  parentRadius + BASE_SPACING + depth * DEPTH_SPACING

\* layoutAllSystems.collectFolders from the index-th child folder of node on
\* (index from 1; the code's index is index - 1), systems being the list
\* pushed so far
RECURSIVE collectFolders(_, _, _, _, _, _, _)
collectFolders(tree, node, index, depth, parentAngle, parentRadius, systems) ==
  IF index > Len(tree[node]) THEN systems
  ELSE
    LET child       == tree[node][index]
        i           == index - 1
        numSiblings == Len(tree[node])
        armAngle    == parentAngle + Div(i * 2 * Pi, Max(numSiblings, 1))
        spiralOffset == depth * 400
        radius      == systemRadius(parentRadius, depth)
        angle       == armAngle + spiralOffset
        baseVertical == 3000 + depth * 1500
        indexVariation == Sin(i * 2700 + depth * 1300) + Cos(i * 1900)
        depthVariation == Cos(depth * 800 + i * 500)
        y == Div(indexVariation * baseVertical, 2)
               + Div(depthVariation * baseVertical * 3, 10)
        x == Cos(angle) * radius + (Div(Sin(i * 2100) * 3, 10) - 150) * 800
        z == Sin(angle) * radius + (Div(Cos(i * 1700) * 3, 10) - 150) * 800
        pushed == Append(systems, [folder |-> child, position |-> <<x, y, z>>,
                                   depth |-> depth, parentPath |-> node])
        nested == collectFolders(tree, child, 1, depth + 1, angle, radius, pushed)
    IN  collectFolders(tree, node, index + 1, depth, parentAngle, parentRadius, nested)

layoutAllSystems(root) == collectFolders(root, RootPath, 1, 0, 0, 0, <<>>)

\* layoutSolarSystems.collectFolders from the index-th child folder of node
\* on; acc.systems is the list pushed so far and acc.drawn the number of
\* Math.random() calls made so far, rnd[k] being the value of the k-th call
RECURSIVE collectFoldersRandom(_, _, _, _, _, _, _, _)
collectFoldersRandom(tree, node, index, depth, parentAngle, parentRadius, rnd, acc) ==
  IF index > Len(tree[node]) THEN acc
  ELSE
    LET child       == tree[node][index]
        i           == index - 1
        numSiblings == Len(tree[node])
        armAngle    == parentAngle + Div(i * 2 * Pi, Max(numSiblings, 1))
        spiralOffset == depth * 300
        radius      == parentRadius + baseSpacing + depth * depthMultiplier
        angle       == armAngle + spiralOffset
        y == (rnd[acc.drawn + 1] - 500) * verticalSpread + depth * 200 * 1000
        x == Cos(angle) * radius + (rnd[acc.drawn + 2] - 500) * 300
        z == Sin(angle) * radius + (rnd[acc.drawn + 3] - 500) * 300
        pushed == [systems |-> Append(acc.systems,
                                 [folder |-> child, position |-> <<x, y, z>>]),
                   drawn |-> acc.drawn + 3]
        nested == collectFoldersRandom(tree, child, 1, depth + 1, angle, radius,
                                       rnd, pushed)
    IN  collectFoldersRandom(tree, node, index + 1, depth, parentAngle,
                             parentRadius, rnd, nested)

layoutSolarSystems(root, rnd) ==
  collectFoldersRandom(root, RootPath, 1, 1, 0, 0, rnd,
    [systems |-> <<[folder |-> RootPath, position |-> <<0, 0, 0>>]>>,
     drawn |-> 0]).systems

\* the two versions of Galaxy
LayoutKinds == {"layoutAllSystems", "layoutSolarSystems"}

\* Galaxy's useMemo computes the layout of rootNode; rnd is what Math.random
\* returns during the call
layout(kind, root, rnd) ==
  /\ layoutRuns' = Append(layoutRuns,
       [kind |-> kind, root |-> root,
        systems |-> IF kind = "layoutAllSystems" THEN layoutAllSystems(root)
                    ELSE layoutSolarSystems(root, rnd)])
  /\ UNCHANGED <<storeVars, refVars, variant, detectorVars, pointerLocked, cursor>>

\* ------------------------------------------------------------------------
\* Layout: one version of Galaxy lays out one tree, and lays it out again
\* (a reload, or a new rootNode object of the same tree)
\* ------------------------------------------------------------------------

LayoutRun ==
  \E kind \in LayoutKinds, root \in Trees, rnd \in DrawSequences :
    /\ Len(layoutRuns) < 2
    /\ layoutRuns # <<>> => /\ kind = layoutRuns[1].kind
                            /\ root = layoutRuns[1].root
    /\ layout(kind, root, rnd)
    /\ Record("layout")

SpecLayout == Init /\ [][LayoutRun]_vars

\* C20: two runs of the spiral layout on the same tree have identical
\* output: the same folders in the same order with identical positions.
C20_LayoutTwiceIdentical ==
  Len(layoutRuns) = 2 => layoutRuns[1].systems = layoutRuns[2].systems

\* ------------------------------------------------------------------------
\* Galaxy as rendered: the systems of the layout, and for layoutAllSystems
\* the star and the orbits SolarSystem computes for each of them.  Sizes
\* and radii in 1/1000 unit.
\* ------------------------------------------------------------------------

FolderName(i) == "f" \o ToString(i)

\* files held by each folder of a surveyed repository
FileCounts == {0, 3, 50}

\* a repository: the child folders of every folder, and the number of files
\* every folder holds.  Wide: n sibling folders under the root.
WideRepository(n, f) ==
  [folders |-> [node \in {RootPath} \cup {FolderName(i) : i \in 1..n} |->
                  IF node = RootPath THEN [i \in 1..n |-> FolderName(i)] ELSE <<>>],
   files   |-> [node \in {RootPath} \cup {FolderName(i) : i \in 1..n} |->
                  IF node = RootPath THEN 0 ELSE f]]

\* Deep: a chain of d nested folders under the root.
DeepRepository(d, f) ==
  [folders |-> [node \in {RootPath} \cup {FolderName(i) : i \in 1..d} |->
                  IF node = RootPath THEN <<FolderName(1)>>
                  ELSE IF node = FolderName(d) THEN <<>>
                  ELSE <<FolderName((CHOOSE i \in 1..d : node = FolderName(i)) + 1)>>],
   files   |-> [node \in {RootPath} \cup {FolderName(i) : i \in 1..d} |->
                  IF node = RootPath THEN 0 ELSE f]]

\* Nested: three sibling folders, the first with two subfolders, the first
\* of which has a subfolder of its own.
NestedRepository(f) ==
  [folders |-> [node \in {RootPath} \cup {FolderName(i) : i \in 1..6} |->
                  IF node = RootPath THEN <<FolderName(1), FolderName(2), FolderName(3)>>
                  ELSE IF node = FolderName(1) THEN <<FolderName(4), FolderName(5)>>
                  ELSE IF node = FolderName(4) THEN <<FolderName(6)>>
                  ELSE <<>>],
   files   |-> [node \in {RootPath} \cup {FolderName(i) : i \in 1..6} |->
                  IF node = RootPath THEN 0 ELSE f]]

Repositories ==
  {WideRepository(n, f) : n \in 1..MaxSiblings, f \in FileCounts}
    \cup {DeepRepository(d, f) : d \in 2..MaxDepth, f \in FileCounts}
    \cup {NestedRepository(f) : f \in FileCounts}

\* folder.children.length
childCount(repo, node) == Len(repo.folders[node]) + repo.files[node]

\* countDescendants(folder): count = folder.children.length, plus
\* countDescendants(child) of every child folder (taken from the index-th on)
RECURSIVE countDescendants(_, _, _)
countDescendants(repo, node, index) ==
  IF index = 0
  THEN childCount(repo, node) + countDescendants(repo, node, 1)
  ELSE IF index > Len(repo.folders[node]) THEN 0
  ELSE countDescendants(repo, repo.folders[node][index], 0)
       + countDescendants(repo, node, index + 1)

\* getStarProperties(depth, childCount, totalDescendants).size
starSize(depth, cc, totalDescendants) ==
  IF depth = 0 /\ totalDescendants > 10
    THEN 120000 + Min(totalDescendants * 2000, 100000)
  ELSE IF depth = 0 THEN 80000 + Min(cc * 5000, 60000)
  ELSE IF depth = 1 /\ cc > 5 THEN 60000 + Min(cc * 4000, 50000)
  ELSE IF depth = 1 THEN 45000 + Min(cc * 3000, 35000)
  ELSE IF depth = 2 THEN 35000 + Min(cc * 2000, 25000)
  ELSE 25000 + Min(cc * 1500, 15000)

\* an orbit radius that ignores the file's index
orbitRadiusShared(sunSize, index) == Div(sunSize * 5, 2) + 100000

\* orbitRadius = sunSize * 2.5 + (index + 1) * 100, index counted from 0
orbitRadius(sunSize, index) == Div(sunSize * 5, 2) + (index + 1) * 100000

\* SolarSystem's orbits: one descriptor per file of the folder
orbits(sunSize, files) ==
  [k \in 1..files |-> [orbitRadius |-> orbitRadius(sunSize, k - 1)]]

\* Galaxy: layoutAllSystems(rootNode), each system rendered as a SolarSystem
\* with its star (getStarProperties) and its orbits
renderAllSystems(repo) ==
  LET systems == layoutAllSystems(repo.folders)
  IN  [k \in 1..Len(systems) |->
        LET folder == systems[k].folder
            size   == starSize(systems[k].depth, childCount(repo, folder),
                               countDescendants(repo, folder, 0))
        IN  [folder     |-> folder,
             position   |-> systems[k].position,
             depth      |-> systems[k].depth,
             parentPath |-> systems[k].parentPath,
             size       |-> size,
             orbits     |-> orbits(size, repo.files[folder])]]

\* Galaxy renders the repository: the current version with
\* layoutAllSystems, a star and orbits for every system; the older version
\* with layoutSolarSystems (its SolarSystem is not part of the sources, so
\* only the positions are kept).  Math.random returns r throughout.
renderGalaxy(kind, repo, r) ==
  /\ layoutRuns' = <<[kind |-> kind, root |-> repo.folders, files |-> repo.files,
       systems |-> IF kind = "layoutAllSystems" THEN renderAllSystems(repo)
                   ELSE layoutSolarSystems(repo.folders,
                          [k \in 1..(3 * Cardinality(DOMAIN repo.folders)) |-> r])]>>
  /\ UNCHANGED <<storeVars, refVars, variant, detectorVars, pointerLocked, cursor>>

RenderGalaxy ==
  \E kind \in LayoutKinds, repo \in Repositories, r \in RandomDraws :
    /\ layoutRuns = <<>>
    /\ renderGalaxy(kind, repo, r)
    /\ Record("renderGalaxy")

SpecGalaxy == Init /\ [][RenderGalaxy]_vars

\* the run of the current Galaxy, if this state holds one
Rendered == layoutRuns # <<>> /\ layoutRuns[1].kind = "layoutAllSystems"

SystemOf(folder) ==
  CHOOSE k \in 1..Len(layoutRuns[1].systems) :
    layoutRuns[1].systems[k].folder = folder

\* b lies below a in the folder tree (a, b indices of systems)
RECURSIVE IsDescendant(_, _)
IsDescendant(b, a) ==
  LET parent == layoutRuns[1].systems[b].parentPath
  IN  /\ parent # RootPath
      /\ \/ parent = layoutRuns[1].systems[a].folder
         \/ IsDescendant(SystemOf(parent), a)

\* squared distance from the galaxy centre in the galactic plane (x, z), and
\* in space, in whole units
PlaneRadiusSq(k) ==
  LET p == layoutRuns[1].systems[k].position
  IN  Div(p[1], 1000) * Div(p[1], 1000) + Div(p[3], 1000) * Div(p[3], 1000)

SpaceRadiusSq(k) ==
  LET p == layoutRuns[1].systems[k].position
  IN  PlaneRadiusSq(k) + Div(p[2], 1000) * Div(p[2], 1000)

\* C21: every descendant folder of a folder placed by the layout lies
\* strictly farther from the galaxy centre than the folder itself.
C21_OutwardNesting ==
  Rendered =>
    \A a, b \in 1..Len(layoutRuns[1].systems) :
      IsDescendant(b, a) => /\ PlaneRadiusSq(b) > PlaneRadiusSq(a)
                            /\ SpaceRadiusSq(b) > SpaceRadiusSq(a)

\* a chain of MaxDepth nested folders has been laid out
C21_Witness ==
  /\ Rendered
  /\ \E a, b \in 1..Len(layoutRuns[1].systems) :
       /\ IsDescendant(b, a)
       /\ layoutRuns[1].systems[a].depth = 0
       /\ layoutRuns[1].systems[b].depth = MaxDepth - 1
       /\ PlaneRadiusSq(b) > PlaneRadiusSq(a)

\* squared distance between the centres of two systems, in whole units
CentreDistanceSq(a, b) ==
  LET p == layoutRuns[1].systems[a].position
      q == layoutRuns[1].systems[b].position
      dx == Div(p[1] - q[1], 1000)
      dy == Div(p[2] - q[2], 1000)
      dz == Div(p[3] - q[3], 1000)
  IN  dx * dx + dy * dy + dz * dz

\* the radius of the star's core sphere, in whole units
StarRadius(k) == Div(layoutRuns[1].systems[k].size, 1000)

\* C22: for every tree and every pair of sibling folders, the distance
\* between their laid-out centres exceeds the sum of their star radii.
C22_SiblingsDoNotOverlap ==
  Rendered =>
    \A a, b \in 1..Len(layoutRuns[1].systems) :
      (a # b /\ layoutRuns[1].systems[a].parentPath = layoutRuns[1].systems[b].parentPath)
        => CentreDistanceSq(a, b) >
             (StarRadius(a) + StarRadius(b)) * (StarRadius(a) + StarRadius(b))

\* the scenario tree: the root holds exactly one folder, which holds 3 files
ScenarioRun ==
  /\ layoutRuns # <<>>
  /\ layoutRuns[1].root = WideRepository(1, 3).folders
  /\ layoutRuns[1].files = WideRepository(1, 3).files

\* exactly 3 orbit descriptors, their radii strictly increasing with the
\* file index (and so pairwise distinct)
ThreeIncreasingOrbits(system) ==
  /\ Len(system.orbits) = 3
  /\ \A i, j \in 1..3 : i < j => system.orbits[i].orbitRadius < system.orbits[j].orbitRadius

\* C23 as stated: for the scenario tree the layout (either version of
\* Galaxy) produces exactly one folder position, and that folder has exactly
\* 3 orbit descriptors of strictly increasing radius.
C23_OnePositionThreeOrbits ==
  ScenarioRun =>
    /\ Len(layoutRuns[1].systems) = 1
    /\ Rendered => ThreeIncreasingOrbits(layoutRuns[1].systems[1])

\* C23 amended: layoutAllSystems produces exactly one folder position, that
\* of the folder, with exactly 3 orbit descriptors of strictly increasing
\* radius; the older layoutSolarSystems produces two positions, the root at
\* the centre followed by the folder.
C23_OnePositionBesidesTheRoot ==
  ScenarioRun =>
    IF Rendered
    THEN /\ Len(layoutRuns[1].systems) = 1
         /\ layoutRuns[1].systems[1].folder = FolderName(1)
         /\ ThreeIncreasingOrbits(layoutRuns[1].systems[1])
    ELSE /\ Len(layoutRuns[1].systems) = 2
         /\ layoutRuns[1].systems[1] = [folder |-> RootPath, position |-> <<0, 0, 0>>]
         /\ layoutRuns[1].systems[2].folder = FolderName(1)

\* the scenario tree rendered by the current Galaxy: star of size 95, orbits
\* at 337.5, 437.5 and 537.5
C23_Witness ==
  /\ ScenarioRun
  /\ Rendered
  /\ layoutRuns[1].systems[1].size = 95000
  /\ layoutRuns[1].systems[1].orbits =
       <<[orbitRadius |-> 337500], [orbitRadius |-> 437500], [orbitRadius |-> 537500]>>

\* ------------------------------------------------------------------------
\* Force-directed relaxation (utils/layout.ts).  Node lists on the x axis:
\* with y = z = 0 and vy = vz = 0 the y and z components of every force are
\* 0 and stay 0, and the distance of two nodes is |dx|.  Positions,
\* velocities and forces in 1/1000 unit.
\* ------------------------------------------------------------------------

\* DEFAULT_OPTIONS
repulsionStrength == 15000

\* attractionStrength 0.015, in 1/1000
attractionStrength == 15

\* centeringForce 0.002, in 1/1000
centeringForce == 2

\* damping 0.8, in 1/10
damping == 8

maxIterations == 250

\* calculateRepulsion: minDist, in 1/1000 unit
minDist == 50000

\* if (totalVelocity < 1) break: the epsilon, in 1/1000 unit
epsilon == 1000

\* opts.maxIterations: the default, and caps given in options
IterationCaps == {0, 3, maxIterations}

Sign(x) == IF x > 0 THEN 1 ELSE IF x < 0 THEN -1 ELSE 0

\* a node of the list: x, vx, parent (index in the list, 0 for none) and
\* whether node.type is 'folder'
SimNode(x, vx, parent, folder) ==
  [x |-> x, vx |-> vx, parent |-> parent, folder |-> folder]

\* input node lists: none, the root alone, the root with a folder or a file
\* at several distances (one of them moving already), the root with two
\* children on one spot, and a folder with a file of its own
NodeLists ==
  {<<>>, <<SimNode(0, 0, 0, TRUE)>>}
    \cup {<<SimNode(0, 0, 0, TRUE), SimNode(d, 0, 1, folder)>> :
            d \in {0, 30000, 180000, 400000}, folder \in BOOLEAN}
    \cup {<<SimNode(0, 0, 0, TRUE), SimNode(-250000, 9000, 1, FALSE)>>,
          <<SimNode(0, 0, 0, TRUE), SimNode(100000, 0, 1, TRUE), SimNode(100000, 0, 1, FALSE)>>,
          <<SimNode(0, 0, 0, TRUE), SimNode(200000, 0, 1, TRUE), SimNode(260000, 0, 2, FALSE)>>}

\* calculateRepulsion(node1, node2, strength).fx
calculateRepulsion(node1, node2, strength) ==
  LET dx == node1.x - node2.x
      dist == IF dx = 0 THEN 1000 ELSE Abs(dx)
      effectiveDist == Max(dist, minDist)
      \* strength / effectiveDist^2, the distance taken in 1/10 unit
      force == Div(strength * 100000,
                   Div(effectiveDist, 100) * Div(effectiveDist, 100))
  IN  Sign(dx) * force

\* calculateAttraction(child, parent, strength, idealDistance).fx
calculateAttraction(child, parent, strength, idealDistance) ==
  LET dx == parent.x - child.x
      dist == IF dx = 0 THEN 1000 ELSE Abs(dx)
      displacement == dist - idealDistance
      force == Div(displacement * strength, 1000)
  IN  Sign(dx) * force

RECURSIVE SumOver(_, _)
SumOver(f, n) == IF n = 0 THEN 0 ELSE f[n] + SumOver(f, n - 1)

\* one iteration of the loop body: forces and velocities of all nodes from
\* the positions before the iteration, then the positions
relax(nodes) ==
  LET fx(i) ==
        SumOver([j \in 1..Len(nodes) |->
                   IF i # j THEN calculateRepulsion(nodes[i], nodes[j], repulsionStrength)
                   ELSE 0], Len(nodes))
        + (IF nodes[i].parent # 0
           THEN calculateAttraction(nodes[i], nodes[nodes[i].parent], attractionStrength,
                                    IF nodes[i].folder THEN 180000 ELSE 120000)
           ELSE 0)
        - Div(nodes[i].x * centeringForce, 1000)
      vx(i) == Div((nodes[i].vx + fx(i)) * damping, 10)
  IN  [i \in 1..Len(nodes) |-> [nodes[i] EXCEPT !.vx = vx(i), !.x = nodes[i].x + vx(i)]]

\* totalVelocity
totalVelocity(nodes) == SumOver([i \in 1..Len(nodes) |-> Abs(nodes[i].vx)], Len(nodes))

\* a convergence test that never succeeds
convergedNever(velocity) == FALSE

\* if (totalVelocity < 1) break
converged(velocity) == velocity < epsilon

\* history of a step of the relaxation, which touches nothing else
SimStep(op) ==
  /\ UNCHANGED <<storeVars, refVars, variant, detectorVars, layoutVars,
                 pointerLocked, cursor, held, ioVars>>
  /\ RecordStep(op, None)

\* runForceSimulation(nodes, options) is called: opts, the clone of the
\* nodes, iteration = 0
runForceSimulation ==
  \E nodes \in NodeLists, cap \in IterationCaps :
    /\ sim = [running |-> FALSE]
    /\ sim' = [running |-> TRUE, iteration |-> 0, performed |-> 0, cap |-> cap,
               nodes |-> nodes, totalVelocity |-> -1]
    /\ SimStep("runForceSimulation")

\* the loop test succeeds and the body runs once: forces, velocities,
\* positions, then the convergence check and its break
iterate ==
  /\ sim.running
  /\ sim.iteration < sim.cap
  /\ LET nodes == relax(sim.nodes)
         velocity == totalVelocity(nodes)
     IN  sim' = [sim EXCEPT !.nodes = nodes,
                            !.totalVelocity = velocity,
                            !.performed = @ + 1,
                            !.iteration = IF converged(velocity) THEN @ ELSE @ + 1,
                            !.running = ~converged(velocity)]
  /\ SimStep("iterate")

\* the loop test fails: return currentNodes
returnNodes ==
  /\ sim.running
  /\ ~(sim.iteration < sim.cap)
  /\ sim' = [sim EXCEPT !.running = FALSE]
  /\ SimStep("returnNodes")

SpecSim == Init /\ [][runForceSimulation \/ iterate \/ returnNodes]_vars

SimCalled == sim # [running |-> FALSE]

\* C24: the relaxation performs at most maxIterations iterations, and stops
\* as soon as the total velocity is below the epsilon: it is never still
\* running after an iteration that ended below it; once it has returned, no
\* step changes it further.
C24_RelaxationBounded ==
  SimCalled =>
    /\ sim.performed <= sim.cap
    /\ sim.performed <= maxIterations
    /\ (sim.performed > 0 /\ sim.totalVelocity < epsilon) => ~sim.running
    /\ ~sim.running => \/ sim.performed = sim.cap
                       \/ sim.totalVelocity < epsilon

\* the default cap stopped a run that had not converged
C24_Witness ==
  /\ SimCalled
  /\ ~sim.running
  /\ sim.cap = maxIterations
  /\ sim.performed = maxIterations
  /\ sim.totalVelocity >= epsilon

\* ------------------------------------------------------------------------
\* Editor (Editor.tsx) and the file API: landing on a planet, loading its
\* file, editing, saving, closing, taking off, with the responses of the
\* server arriving in any order
\* ------------------------------------------------------------------------

\* file contents
Texts == {"a", "b"}

\* what the editor's store actions leave alone
EditorFrame ==
  UNCHANGED <<navVars, cameraMode, keysPressed, flightState, landingVars,
              showSettings, variant, detectorVars, layoutVars, refVars,
              pointerLocked, cursor>>

openEditor(content) ==
  /\ isEditorOpen' = TRUE
  /\ editorContent' = content
  /\ hasUnsavedChanges' = FALSE
  /\ editorError' = None
  /\ EditorFrame

closeEditor ==
  /\ isEditorOpen' = FALSE
  /\ editorContent' = None
  /\ hasUnsavedChanges' = FALSE
  /\ editorError' = None
  /\ EditorFrame

setEditorContent(content) ==
  /\ editorContent' = content
  /\ hasUnsavedChanges' = (content # editorContent)
  /\ UNCHANGED <<isEditorOpen, editorError>>
  /\ EditorFrame

\* a setEditorError that also closes the editor
setEditorErrorClosing(error) ==
  /\ editorError' = error
  /\ isEditorOpen' = FALSE
  /\ UNCHANGED <<editorContent, hasUnsavedChanges>>
  /\ EditorFrame

setEditorError(error) ==
  /\ editorError' = error
  /\ UNCHANGED <<isEditorOpen, editorContent, hasUnsavedChanges>>
  /\ EditorFrame

\* the requests the Editor's load effect adds after a step: the effect runs
\* when targetFile, isOpen or content has changed, and calls
\* readFile(targetFile.path) if (targetFile && isOpen && content === null)
loadEffect ==
  IF /\ <<landingTarget', isEditorOpen', editorContent'>>
          # <<landingTarget, isEditorOpen, editorContent>>
     /\ landingTarget' # None
     /\ isEditorOpen'
     /\ editorContent' = None
  THEN {landingTarget'}
  ELSE {}

InFlight == Cardinality(pendingReads) + Cardinality(pendingWrites)

\* useNodeInteraction's onClick on a file: selectNode(node) and
\* initiateLanding(node), then the load effect.  The click reaches the
\* planet only while the editor, an overlay on the scene, is closed.
clickPlanet(planet) ==
  /\ cameraMode # "fly"
  /\ ~pointerLocked
  /\ ~isEditorOpen
  /\ InFlight < MaxRequests
  /\ selectedNode' = planet
  /\ landingState' = "landed"
  /\ landingTarget' = planet
  /\ cameraMode' = "orbit"
  /\ isEditorOpen' = TRUE
  /\ CameraModeEffects(cameraMode, "orbit")
  /\ UNCHANGED <<viewLevel, currentSystem, keysPressed, flightState, nearestPlanet,
                 editorContent, hasUnsavedChanges, editorError, showSettings,
                 variant, detectorVars, layoutVars>>
  /\ pendingReads' = pendingReads \cup loadEffect
  /\ UNCHANGED <<pendingWrites, disk, synced, held, sim>>
  /\ RecordStep("clickPlanet", planet)

\* the textarea (shown when the editor is open with content) changes
handleChange(text) ==
  /\ isEditorOpen
  /\ editorContent # None
  /\ text # editorContent
  /\ setEditorContent(text)
  /\ UNCHANGED envVars
  /\ RecordStep("handleChange", text)

\* Save button or Cmd/Ctrl+S: writeFile(targetFile.path, content) is sent
handleSave ==
  /\ isEditorOpen
  /\ landingTarget # None
  /\ editorContent # None
  /\ InFlight < MaxRequests
  /\ pendingWrites' = pendingWrites \cup {[path |-> landingTarget, content |-> editorContent]}
  /\ UNCHANGED <<storeVars, refVars, variant, detectorVars, layoutVars,
                 pointerLocked, cursor, pendingReads, disk, synced, held, sim>>
  /\ RecordStep("handleSave", landingTarget)

\* Close button (confirmed by the user if there are unsaved changes)
handleClose ==
  /\ isEditorOpen
  /\ closeEditor
  /\ UNCHANGED envVars
  /\ RecordStep("handleClose", None)

\* Take Off button (confirmed by the user if there are unsaved changes)
handleTakeoff ==
  /\ isEditorOpen
  /\ completeTakeoff
  /\ UNCHANGED envVars
  /\ RecordStep("handleTakeoff", None)

\* the promise of readFile(path) settles: then openEditor(fileContent),
\* catch setEditorError(err.message)
readSettled(path, ok) ==
  /\ path \in pendingReads
  /\ IF ok
     THEN /\ openEditor(disk[path])
          /\ synced' = [synced EXCEPT ![path] = disk[path]]
     ELSE /\ setEditorError("Failed to read file")
          /\ synced' = synced
  /\ pendingReads' = (pendingReads \ {path}) \cup loadEffect
  /\ UNCHANGED <<pendingWrites, disk, held, sim>>
  /\ RecordStep(IF ok THEN "readResolved" ELSE "readRejected", path)

\* the await of writeFile(path, content) in handleSave settles: the server
\* has written the file, setHasUnsavedChanges(false) and setEditorError(null);
\* or catch setEditorError(err.message)
writeSettled(write, ok) ==
  /\ write \in pendingWrites
  /\ IF ok
     THEN /\ hasUnsavedChanges' = FALSE
          /\ editorError' = None
          /\ UNCHANGED <<isEditorOpen, editorContent>>
          /\ EditorFrame
          /\ disk' = [disk EXCEPT ![write.path] = write.content]
          /\ synced' = [synced EXCEPT ![write.path] = write.content]
     ELSE /\ setEditorError("Failed to write file")
          /\ UNCHANGED <<disk, synced>>
  /\ pendingWrites' = pendingWrites \ {write}
  /\ UNCHANGED <<pendingReads, held, sim>>
  /\ RecordStep(IF ok THEN "writeResolved" ELSE "writeRejected", write)

SpecEditor ==
  Init /\ [][
    \/ /\ ~isEditorOpen   \* the HUD's Orbit and Fly buttons, under the overlay
       /\ \E mode \in CameraModes : setCameraMode(mode) /\ Record("setCameraMode")
    \/ \E planet \in Files : clickPlanet(planet)
    \/ \E text \in Texts : handleChange(text)
    \/ handleSave
    \/ handleClose
    \/ handleTakeoff
    \/ \E path \in Files, ok \in BOOLEAN : readSettled(path, ok)
    \/ \E write \in [path : Files, content : Texts], ok \in BOOLEAN : writeSettled(write, ok)
  ]_vars

\* C25: when a file read or write fails, the only change of state is the
\* editor's error message: navigation, camera mode, landing, flight state,
\* the ship and the rest of the editor are as before, and the failed request
\* is not sent again.
C25_FailureOnlySetsEditorError ==
  lastOp \in {"readRejected", "writeRejected"} =>
    /\ editorError \in {"Failed to read file", "Failed to write file"}
    /\ [StoreSnapshot EXCEPT !.editorError = pre.store.editorError] = pre.store
    /\ ShipSnapshot = pre.ship
    /\ lastOp = "readRejected" => lastArg \notin pendingReads
    /\ lastOp = "writeRejected" => lastArg \notin pendingWrites

\* a save of edited content has failed while landed: the edit is still
\* there, still unsaved, the message shown
C25_Witness ==
  /\ lastOp = "writeRejected"
  /\ landingState = "landed"
  /\ isEditorOpen
  /\ hasUnsavedChanges
  /\ editorContent = "b"
  /\ editorError = "Failed to write file"

\* C28: a file-read response is applied to the editor only if the landing
\* it was requested for is still current (landed on that file, the editor
\* open): otherwise it neither opens the editor nor replaces its content.
C28_StaleReadNotApplied ==
  (/\ lastOp = "readResolved"
   /\ ~(/\ pre.store.landingState = "landed"
        /\ pre.store.landingTarget = lastArg
        /\ pre.store.isEditorOpen))
    => /\ isEditorOpen = pre.store.isEditorOpen
       /\ editorContent = pre.store.editorContent

\* C29: whenever hasUnsavedChanges is false while the editor holds content
\* for a landing target whose file it has loaded, that content is the
\* content last loaded from or last successfully written to that file.
C29_CleanMeansSynced ==
  (/\ ~hasUnsavedChanges
   /\ editorContent # None
   /\ landingTarget # None
   /\ synced[landingTarget] # None)
    => editorContent = synced[landingTarget]

\* C27: in every reachable state, landingState = landed implies
\* cameraMode = orbit.
C27_LandedImpliesOrbit == landingState = "landed" => cameraMode = "orbit"

\* ------------------------------------------------------------------------
\* Keyboard: the keys as the user holds them, and the handlers ShipControls
\* has on the document while cameraMode is fly
\* ------------------------------------------------------------------------

\* the keys the user presses: thrust, brake, boost, and Escape
PhysicalKeys == {"KeyW", "KeyS", "ShiftLeft", "Escape"}

\* the user presses a key: the keydown event reaches onKeyDown if the
\* handlers effect has its listeners on the document, and nothing otherwise
pressKey(code) ==
  /\ code \notin held
  /\ held' = held \cup {code}
  /\ IF cameraMode = "fly"
     THEN onKeyDown(code)
     ELSE UNCHANGED <<storeVars, refVars, variant, detectorVars, layoutVars,
                      pointerLocked, cursor>>
  /\ UNCHANGED <<ioVars, sim>>
  /\ RecordStep("keydown", code)

\* the user releases a key: the keyup event reaches onKeyUp if the listeners
\* are on the document
releaseKey(code) ==
  /\ code \in held
  /\ held' = held \ {code}
  /\ IF cameraMode = "fly"
     THEN onKeyUp(code)
     ELSE UNCHANGED <<storeVars, refVars, variant, detectorVars, layoutVars,
                      pointerLocked, cursor>>
  /\ UNCHANGED <<ioVars, sim>>
  /\ RecordStep("keyup", code)

SpecKeys ==
  Init /\ [][
    \/ \E code \in PhysicalKeys : pressKey(code)
    \/ \E code \in PhysicalKeys : releaseKey(code)
    \/ SetCameraMode
  ]_vars

\* C30: on every entry into fly mode the set of pressed keys contains only
\* keys that are physically held: a key released while cameraMode was orbit
\* is not treated as held.
C30_FlyEntryKeysAreHeld == EnteredFly => keysPressed \subseteq held

\* ------------------------------------------------------------------------
\* The two axes of the view: viewLevel (enterSystem, exitSystem) and
\* cameraMode (setCameraMode), with the history carrying the combinations
\* visited so far
\* ------------------------------------------------------------------------

\* the combinations <<viewLevel, cameraMode>> the behaviour has been in
Visited == IF lastOp = "init" THEN {<<viewLevel, cameraMode>>} ELSE lastArg

AxesStep(op) ==
  /\ UNCHANGED envVars
  /\ RecordStep(op, Visited \cup {<<viewLevel', cameraMode'>>})

SpecAxes ==
  Init /\ [][
    \/ \E mode \in CameraModes : setCameraMode(mode) /\ AxesStep("setCameraMode")
    \/ \E folder \in Folders : enterSystem(folder) /\ AxesStep("enterSystem")
    \/ exitSystem /\ AxesStep("exitSystem")
  ]_vars

\* C26: viewLevel and cameraMode are orthogonal: setCameraMode leaves the
\* view level and the current system alone and reaches either mode at
\* either level, enterSystem and exitSystem leave the camera mode alone and
\* reach either level in either mode; so each of the four combinations
\* {galaxy, system} x {orbit, fly} is reachable from the initial state.
C26_AxesOrthogonal ==
  /\ Visited \subseteq ({"galaxy", "system"} \X {"orbit", "fly"})
  /\ <<viewLevel, cameraMode>> \in Visited
  /\ lastOp = "setCameraMode" =>
       /\ viewLevel = pre.store.viewLevel
       /\ currentSystem = pre.store.currentSystem
  /\ lastOp = "enterSystem" =>
       /\ viewLevel = "system"
       /\ cameraMode = pre.store.cameraMode
  /\ lastOp = "exitSystem" =>
       /\ viewLevel = "galaxy"
       /\ cameraMode = pre.store.cameraMode

\* a behaviour that has been in all four combinations
C26_Witness ==
  /\ lastOp # "init"
  /\ Visited = {"galaxy", "system"} \X {"orbit", "fly"}

====
